---- MODULE Spec2Model ----
(***************************************************************************)
(* The fan-out / fan-in pipeline of src/precode.go: Generator -> chIn ->     *)
(* NumOut Workers -> outs[w] -> NumOut merge coordinators -> chOut ->        *)
(* the collector loop of main -> the verification at the end of main.        *)
(* Every goroutine is a process with a program counter; an unbuffered        *)
(* channel operation is a rendezvous of the sender and the receiver, the     *)
(* buffered chOut is a queue of capacity NumOut.                             *)
(***************************************************************************)
EXTENDS Integers, Sequences, FiniteSets

\* Bounds of the model: the generator stops offering Items after MaxItems
\* (the code's counter is unbounded), and the worker count is drawn from
\* 1..MaxNumOut (the code fixes it at compile time, the spec for every N >= 1).
MaxItems == 2
MaxNumOut == 2

VARIABLES
    NumOut,      \* number of workers, coordinators and outs channels
    cancelled,   \* ctx.Done() is ready (the timeout has fired)
    genPC,       \* Generator: "select", "fn", "done"
    genI,        \* Generator's local i
    wPC,         \* Worker w: "recv", "send", "sleep", "done" (and "count"
                 \* in the variant whose Worker counts its own Items)
    wVal,        \* Worker w's loop variable i (0: none)
    cPC,         \* merge coordinator w: "recv", "send", "count", "done"
                 \* ("off" where there is none)
    cNum,        \* coordinator w's loop variable num (0: none)
    wg,          \* the sync.WaitGroup counter
    watchPC,     \* completion watcher: "wait", "close", "done"
    mainPC,      \* main: "range", "verify", "exit"
    chOut,       \* the buffer of the result channel
    inputSum, inputCount, count, sum, amounts,
    verdict,     \* "none", then the outcome of the checks at the end of main
    closes,      \* per channel, the threads that executed close on it, in order
    fault,       \* "none", or the runtime panic that ended the process
    published,   \* history: the Items sent on chIn, in order
    wRecv,       \* history: the Items Worker w received from chIn, in order
    wSent,       \* history: the Items Worker w sent on outs[w], in order
    collected,   \* history: the Items main received from chOut, in order
    wSlept,      \* history: how many delays Worker w has completed
    writers,     \* history: the threads that have written amounts[w]
    mPC,         \* the one merging goroutine of the sequential variant:
                 \* "recv", "send", "done" ("off" where there is none)
    mIdx,        \* the index of the outs channel it is draining
    mNum         \* its loop variable i (0: none)

vars == <<NumOut, cancelled, genPC, genI, wPC, wVal, cPC, cNum, wg, watchPC,
          mainPC, chOut, inputSum, inputCount, count, sum, amounts, verdict,
          closes, fault, published, wRecv, wSent, collected, wSlept, writers,
          mPC, mIdx, mNum>>

Workers == 1..NumOut

\* Identities of the threads that may close a channel.
GeneratorId == [kind |-> "Generator", id |-> 0]
WorkerId(w) == [kind |-> "Worker", id |-> w]
CoordId(w) == [kind |-> "Coordinator", id |-> w]
WatcherId == [kind |-> "Watcher", id |-> 0]

ChInClosed == closes.chIn # <<>>
OutClosed(w) == closes.outs[w] # <<>>
ChOutClosed == closes.chOut # <<>>

\* The runtime panics of a channel misuse.
ChannelFaults == {"send on closed chIn", "close of closed chIn",
                  "send on closed outs", "close of closed outs",
                  "send on closed chOut", "close of closed chOut"}

\* The process is running: no panic has ended it and main has not returned.
Alive == fault = "none" /\ mainPC # "exit"

Init ==
    /\ NumOut \in 1..MaxNumOut
    /\ cancelled = FALSE
    /\ genPC = "select"
    /\ genI = 1
    /\ wPC = [w \in Workers |-> "recv"]
    /\ wVal = [w \in Workers |-> 0]
    /\ cPC = [w \in Workers |-> "recv"]
    /\ cNum = [w \in Workers |-> 0]
    /\ wg = NumOut
    /\ watchPC = "wait"
    /\ mainPC = "range"
    /\ chOut = <<>>
    /\ inputSum = 0
    /\ inputCount = 0
    /\ count = 0
    /\ sum = 0
    /\ amounts = [w \in Workers |-> 0]
    /\ verdict = "none"
    /\ closes = [chIn |-> <<>>, chOut |-> <<>>, outs |-> [w \in Workers |-> <<>>]]
    /\ fault = "none"
    /\ published = <<>>
    /\ wRecv = [w \in Workers |-> <<>>]
    /\ wSent = [w \in Workers |-> <<>>]
    /\ collected = <<>>
    /\ wSlept = [w \in Workers |-> 0]
    /\ writers = [w \in Workers |-> {}]
    /\ mPC = "off"
    /\ mIdx = 0
    /\ mNum = 0


\* The sum of amounts[1..n]: the loop "for _, v := range amounts".
RECURSIVE SumAmounts(_, _)
SumAmounts(a, n) == IF n = 0 THEN 0 ELSE a[n] + SumAmounts(a, n - 1)

\* The number of Items after which the generator of the model stops
\* offering. A pipeline with one worker can hold three Items, so there the
\* generator gets two more, enough to press against a full pipeline.
ItemCap == IF NumOut = 1 THEN MaxItems + 2 ELSE MaxItems

\* ctx's timer fires: ctx.Done() becomes ready, once and for good.
Timeout ==
    /\ Alive
    /\ ~cancelled
    /\ cancelled' = TRUE
    /\ UNCHANGED <<mPC, mIdx, mNum, wSlept, writers,
                   NumOut, genPC, genI, wPC, wVal, cPC, cNum, wg, watchPC,
                   mainPC, chOut, inputSum, inputCount, count, sum, amounts,
                   verdict, closes, fault, published, wRecv, wSent,
                   collected>>

\* Generator, "case chIn <- i": select may take this case whenever a worker
\* is receiving, whether or not ctx.Done() is ready too. The unbuffered send
\* is a rendezvous with Worker w's "for i := range in".
GenSend ==
    /\ Alive
    /\ genPC = "select"
    /\ genI <= ItemCap
    /\ IF ChInClosed
       THEN /\ fault' = "send on closed chIn"
            /\ UNCHANGED <<genPC, wPC, wVal, wRecv, published>>
       ELSE \E w \in Workers :
               /\ wPC[w] = "recv"
               /\ wPC' = [wPC EXCEPT ![w] = "send"]
               /\ wVal' = [wVal EXCEPT ![w] = genI]
               /\ wRecv' = [wRecv EXCEPT ![w] = Append(@, genI)]
               /\ published' = Append(published, genI)
               /\ genPC' = "fn"
               /\ fault' = fault
    /\ UNCHANGED <<mPC, mIdx, mNum, wSlept, writers,
                   NumOut, cancelled, genI, cPC, cNum, wg, watchPC, mainPC,
                   chOut, inputSum, inputCount, count, sum, amounts, verdict,
                   closes, wSent, collected>>

\* A Generator that advances its counter before it calls the observer.
GenObserve_IncFirst ==
    /\ Alive
    /\ genPC = "fn"
    /\ inputSum' = inputSum + genI + 1
    /\ inputCount' = inputCount + 1
    /\ genI' = genI + 1
    /\ genPC' = "select"
    /\ UNCHANGED <<mPC, mIdx, mNum, wSlept, writers,
                   NumOut, cancelled, wPC, wVal, cPC, cNum, wg, watchPC,
                   mainPC, chOut, count, sum, amounts, verdict, closes, fault,
                   published, wRecv, wSent, collected>>

\* Generator, "fn(i); i++": the observer closure of main adds i to inputSum
\* and 1 to inputCount, then the counter advances.
GenObserve ==
    /\ Alive
    /\ genPC = "fn"
    /\ inputSum' = inputSum + genI
    /\ inputCount' = inputCount + 1
    /\ genI' = genI + 1
    /\ genPC' = "select"
    /\ UNCHANGED <<mPC, mIdx, mNum, wSlept, writers,
                   NumOut, cancelled, wPC, wVal, cPC, cNum, wg, watchPC,
                   mainPC, chOut, count, sum, amounts, verdict, closes, fault,
                   published, wRecv, wSent, collected>>

\* A Generator that closes chIn on cancellation and, the return left out,
\* goes round its loop again.
GenClose_NoReturn ==
    /\ Alive
    /\ genPC = "select"
    /\ cancelled
    /\ closes' = [closes EXCEPT !.chIn = Append(@, GeneratorId)]
    /\ fault' = IF ChInClosed THEN "close of closed chIn" ELSE fault
    /\ UNCHANGED <<mPC, mIdx, mNum, wSlept, writers,
                   NumOut, cancelled, genPC, genI, wPC, wVal, cPC, cNum, wg,
                   watchPC, mainPC, chOut, inputSum, inputCount, count, sum,
                   amounts, verdict, published, wRecv, wSent, collected>>

\* Generator, "case <-ctx.Done(): close(chIn); return".
GenClose ==
    /\ Alive
    /\ genPC = "select"
    /\ cancelled
    /\ closes' = [closes EXCEPT !.chIn = Append(@, GeneratorId)]
    /\ fault' = IF ChInClosed THEN "close of closed chIn" ELSE fault
    /\ genPC' = "done"
    /\ UNCHANGED <<mPC, mIdx, mNum, wSlept, writers,
                   NumOut, cancelled, genI, wPC, wVal, cPC, cNum, wg, watchPC,
                   mainPC, chOut, inputSum, inputCount, count, sum, amounts,
                   verdict, published, wRecv, wSent, collected>>

\* A worker that forwards the Item and takes the next one with no delay.
WorkerSend_NoDelay(w) ==
    /\ Alive
    /\ wPC[w] = "send"
    /\ IF OutClosed(w)
       THEN /\ fault' = "send on closed outs"
            /\ UNCHANGED <<wPC, cPC, cNum, wSent>>
       ELSE /\ cPC[w] = "recv"
            /\ cPC' = [cPC EXCEPT ![w] = "send"]
            /\ cNum' = [cNum EXCEPT ![w] = wVal[w]]
            /\ wSent' = [wSent EXCEPT ![w] = Append(@, wVal[w])]
            /\ wPC' = [wPC EXCEPT ![w] = "recv"]
            /\ fault' = fault
    /\ UNCHANGED <<mPC, mIdx, mNum, wSlept, writers,
                   NumOut, cancelled, genPC, genI, wVal, wg, watchPC, mainPC,
                   chOut, inputSum, inputCount, count, sum, amounts, verdict,
                   closes, published, wRecv, collected>>

\* Worker w, "out <- i": a rendezvous with coordinator w's
\* "for num := range outs[i]".
WorkerSend(w) ==
    /\ Alive
    /\ wPC[w] = "send"
    /\ IF OutClosed(w)
       THEN /\ fault' = "send on closed outs"
            /\ UNCHANGED <<wPC, cPC, cNum, wSent>>
       ELSE /\ cPC[w] = "recv"
            /\ cPC' = [cPC EXCEPT ![w] = "send"]
            /\ cNum' = [cNum EXCEPT ![w] = wVal[w]]
            /\ wSent' = [wSent EXCEPT ![w] = Append(@, wVal[w])]
            /\ wPC' = [wPC EXCEPT ![w] = "sleep"]
            /\ fault' = fault
    /\ UNCHANGED <<mPC, mIdx, mNum, wSlept, writers,
                   NumOut, cancelled, genPC, genI, wVal, wg, watchPC, mainPC,
                   chOut, inputSum, inputCount, count, sum, amounts, verdict,
                   closes, published, wRecv, collected>>

\* Worker w, "time.Sleep(time.Millisecond)", then back to the range.
WorkerSleep(w) ==
    /\ Alive
    /\ wPC[w] = "sleep"
    /\ wPC' = [wPC EXCEPT ![w] = "recv"]
    /\ wSlept' = [wSlept EXCEPT ![w] = @ + 1]
    /\ UNCHANGED <<mPC, mIdx, mNum, writers,
                   NumOut, cancelled, genPC, genI, wVal, cPC, cNum, wg,
                   watchPC, mainPC, chOut, inputSum, inputCount, count, sum,
                   amounts, verdict, closes, fault, published,
                   wRecv, wSent, collected>>

\* A worker that watches the cancellation itself and closes its output as
\* soon as ctx.Done() is ready, chIn closed or not.
WorkerClose_OnCancel(w) ==
    /\ Alive
    /\ wPC[w] = "recv"
    /\ cancelled
    /\ closes' = [closes EXCEPT !.outs[w] = Append(@, WorkerId(w))]
    /\ fault' = IF OutClosed(w) THEN "close of closed outs" ELSE fault
    /\ wPC' = [wPC EXCEPT ![w] = "done"]
    /\ UNCHANGED <<mPC, mIdx, mNum, wSlept, writers,
                   NumOut, cancelled, genPC, genI, wVal, cPC, cNum, wg,
                   watchPC, mainPC, chOut, inputSum, inputCount, count, sum,
                   amounts, verdict, published, wRecv, wSent, collected>>

\* A worker that returns at the end of its range without "close(out)".
WorkerClose_NoClose(w) ==
    /\ Alive
    /\ wPC[w] = "recv"
    /\ ChInClosed
    /\ wPC' = [wPC EXCEPT ![w] = "done"]
    /\ UNCHANGED <<mPC, mIdx, mNum, wSlept, writers,
                   NumOut, cancelled, genPC, genI, wVal, cPC, cNum, wg,
                   watchPC, mainPC, chOut, inputSum, inputCount, count, sum,
                   amounts, verdict, closes, fault, published, wRecv, wSent,
                   collected>>

\* A worker that gives up the Item it still holds when chIn is closed, and
\* closes its output at once.
WorkerClose_DropsPending(w) ==
    /\ Alive
    /\ wPC[w] \in {"recv", "send"}
    /\ ChInClosed
    /\ closes' = [closes EXCEPT !.outs[w] = Append(@, WorkerId(w))]
    /\ fault' = IF OutClosed(w) THEN "close of closed outs" ELSE fault
    /\ wPC' = [wPC EXCEPT ![w] = "done"]
    /\ UNCHANGED <<mPC, mIdx, mNum, wSlept, writers,
                   NumOut, cancelled, genPC, genI, wVal, cPC, cNum, wg,
                   watchPC, mainPC, chOut, inputSum, inputCount, count, sum,
                   amounts, verdict, published, wRecv, wSent, collected>>

\* Worker w: the range over in ends because chIn is closed; "close(out)".
WorkerClose(w) ==
    /\ Alive
    /\ wPC[w] = "recv"
    /\ ChInClosed
    /\ closes' = [closes EXCEPT !.outs[w] = Append(@, WorkerId(w))]
    /\ fault' = IF OutClosed(w) THEN "close of closed outs" ELSE fault
    /\ wPC' = [wPC EXCEPT ![w] = "done"]
    /\ UNCHANGED <<mPC, mIdx, mNum, wSlept, writers,
                   NumOut, cancelled, genPC, genI, wVal, cPC, cNum, wg,
                   watchPC, mainPC, chOut, inputSum, inputCount, count, sum,
                   amounts, verdict, published, wRecv, wSent,
                   collected>>

\* A result channel that takes any number of Items without blocking.
CoordSend_Unbounded(w) ==
    /\ Alive
    /\ cPC[w] = "send"
    /\ IF ChOutClosed
       THEN /\ fault' = "send on closed chOut"
            /\ UNCHANGED <<chOut, cPC>>
       ELSE /\ chOut' = Append(chOut, cNum[w])
            /\ cPC' = [cPC EXCEPT ![w] = "count"]
            /\ fault' = fault
    /\ UNCHANGED <<mPC, mIdx, mNum, wSlept, writers,
                   NumOut, cancelled, genPC, genI, wPC, wVal, cNum, wg,
                   watchPC, mainPC, inputSum, inputCount, count, sum, amounts,
                   verdict, closes, published, wRecv, wSent, collected>>

\* A result channel that hands out the newest Item first.
CoordSend_Prepends(w) ==
    /\ Alive
    /\ cPC[w] = "send"
    /\ IF ChOutClosed
       THEN /\ fault' = "send on closed chOut"
            /\ UNCHANGED <<chOut, cPC>>
       ELSE /\ Len(chOut) < NumOut
            /\ chOut' = <<cNum[w]>> \o chOut
            /\ cPC' = [cPC EXCEPT ![w] = "count"]
            /\ fault' = fault
    /\ UNCHANGED <<mPC, mIdx, mNum, wSlept, writers,
                   NumOut, cancelled, genPC, genI, wPC, wVal, cNum, wg,
                   watchPC, mainPC, inputSum, inputCount, count, sum, amounts,
                   verdict, closes, published, wRecv, wSent, collected>>

\* Coordinator w, "chOut <- num": chOut is buffered with capacity NumOut.
CoordSend(w) ==
    /\ Alive
    /\ cPC[w] = "send"
    /\ IF ChOutClosed
       THEN /\ fault' = "send on closed chOut"
            /\ UNCHANGED <<chOut, cPC>>
       ELSE /\ Len(chOut) < NumOut
            /\ chOut' = Append(chOut, cNum[w])
            /\ cPC' = [cPC EXCEPT ![w] = "count"]
            /\ fault' = fault
    /\ UNCHANGED <<mPC, mIdx, mNum, wSlept, writers,
                   NumOut, cancelled, genPC, genI, wPC, wVal, cNum, wg,
                   watchPC, mainPC, inputSum, inputCount, count, sum, amounts,
                   verdict, closes, published, wRecv, wSent,
                   collected>>

\* A coordinator that counts in its neighbour's slot of amounts.
CoordCount_WrongSlot(w) ==
    /\ Alive
    /\ cPC[w] = "count"
    /\ amounts' = [amounts EXCEPT ![(w % NumOut) + 1] = @ + 1]
    /\ writers' = [writers EXCEPT ![(w % NumOut) + 1] = @ \cup {CoordId(w)}]
    /\ cPC' = [cPC EXCEPT ![w] = "recv"]
    /\ UNCHANGED <<mPC, mIdx, mNum, wSlept,
                   NumOut, cancelled, genPC, genI, wPC, wVal, cNum, wg,
                   watchPC, mainPC, chOut, inputSum, inputCount, count, sum,
                   verdict, closes, fault, published, wRecv, wSent,
                   collected>>

\* A coordinator that forwards the Item and goes back to the range without
\* "amounts[i]++".
CoordCount_Skips(w) ==
    /\ Alive
    /\ cPC[w] = "count"
    /\ cPC' = [cPC EXCEPT ![w] = "recv"]
    /\ UNCHANGED <<mPC, mIdx, mNum, wSlept, writers,
                   NumOut, cancelled, genPC, genI, wPC, wVal, cNum, wg,
                   watchPC, mainPC, chOut, inputSum, inputCount, count, sum,
                   amounts, verdict, closes, fault, published, wRecv, wSent,
                   collected>>

\* Coordinator w, "amounts[i]++", then back to the range.
CoordCount(w) ==
    /\ Alive
    /\ cPC[w] = "count"
    /\ amounts' = [amounts EXCEPT ![w] = @ + 1]
    /\ writers' = [writers EXCEPT ![w] = @ \cup {CoordId(w)}]
    /\ cPC' = [cPC EXCEPT ![w] = "recv"]
    /\ UNCHANGED <<mPC, mIdx, mNum, wSlept,
                   NumOut, cancelled, genPC, genI, wPC, wVal, cNum, wg,
                   watchPC, mainPC, chOut, inputSum, inputCount, count, sum,
                   verdict, closes, fault, published, wRecv, wSent,
                   collected>>

\* A coordinator that, done with outs[i], closes it a second time.
CoordDone_ClosesOut(w) ==
    /\ Alive
    /\ cPC[w] = "recv"
    /\ OutClosed(w)
    /\ closes' = [closes EXCEPT !.outs[w] = Append(@, CoordId(w))]
    /\ fault' = "close of closed outs"
    /\ wg' = wg - 1
    /\ cPC' = [cPC EXCEPT ![w] = "done"]
    /\ UNCHANGED <<mPC, mIdx, mNum, wSlept, writers,
                   NumOut, cancelled, genPC, genI, wPC, wVal, cNum, watchPC,
                   mainPC, chOut, inputSum, inputCount, count, sum, amounts,
                   verdict, published, wRecv, wSent, collected>>

\* Coordinator w: the range over outs[i] ends because it is closed; the
\* deferred wg.Done() runs (a negative counter panics).
CoordDone(w) ==
    /\ Alive
    /\ cPC[w] = "recv"
    /\ OutClosed(w)
    /\ wg' = wg - 1
    /\ fault' = IF wg = 0 THEN "negative WaitGroup counter" ELSE fault
    /\ cPC' = [cPC EXCEPT ![w] = "done"]
    /\ UNCHANGED <<mPC, mIdx, mNum, wSlept, writers,
                   NumOut, cancelled, genPC, genI, wPC, wVal, cNum, watchPC,
                   mainPC, chOut, inputSum, inputCount, count, sum, amounts,
                   verdict, closes, published, wRecv, wSent,
                   collected>>

\* A watcher that closes chOut without waiting for the coordinators.
WatcherWait_NoWait ==
    /\ Alive
    /\ watchPC = "wait"
    /\ watchPC' = "close"
    /\ UNCHANGED <<mPC, mIdx, mNum, wSlept, writers,
                   NumOut, cancelled, genPC, genI, wPC, wVal, cPC, cNum, wg,
                   mainPC, chOut, inputSum, inputCount, count, sum, amounts,
                   verdict, closes, fault, published, wRecv, wSent, collected>>

\* Completion watcher, "wg.Wait()": returns when the counter is zero.
WatcherWait ==
    /\ Alive
    /\ watchPC = "wait"
    /\ wg = 0
    /\ watchPC' = "close"
    /\ UNCHANGED <<mPC, mIdx, mNum, wSlept, writers,
                   NumOut, cancelled, genPC, genI, wPC, wVal, cPC, cNum, wg,
                   mainPC, chOut, inputSum, inputCount, count, sum, amounts,
                   verdict, closes, fault, published, wRecv, wSent,
                   collected>>

\* Completion watcher, "close(chOut)".
WatcherClose ==
    /\ Alive
    /\ watchPC = "close"
    /\ closes' = [closes EXCEPT !.chOut = Append(@, WatcherId)]
    /\ fault' = IF ChOutClosed THEN "close of closed chOut" ELSE fault
    /\ watchPC' = "done"
    /\ UNCHANGED <<mPC, mIdx, mNum, wSlept, writers,
                   NumOut, cancelled, genPC, genI, wPC, wVal, cPC, cNum, wg,
                   mainPC, chOut, inputSum, inputCount, count, sum, amounts,
                   verdict, published, wRecv, wSent, collected>>

\* A collector loop that counts each Item but leaves "sum += i" out.
CollectRecv_DropsSum ==
    /\ Alive
    /\ mainPC = "range"
    /\ chOut # <<>>
    /\ count' = count + 1
    /\ collected' = Append(collected, Head(chOut))
    /\ chOut' = Tail(chOut)
    /\ UNCHANGED <<mPC, mIdx, mNum, wSlept, writers,
                   NumOut, cancelled, genPC, genI, wPC, wVal, cPC, cNum, wg,
                   watchPC, mainPC, inputSum, inputCount, sum, amounts,
                   verdict, closes, fault, published, wRecv, wSent>>

\* main, one iteration of "for i := range chOut { count++; sum += i }".
CollectRecv ==
    /\ Alive
    /\ mainPC = "range"
    /\ chOut # <<>>
    /\ count' = count + 1
    /\ sum' = sum + Head(chOut)
    /\ collected' = Append(collected, Head(chOut))
    /\ chOut' = Tail(chOut)
    /\ UNCHANGED <<mPC, mIdx, mNum, wSlept, writers,
                   NumOut, cancelled, genPC, genI, wPC, wVal, cPC, cNum, wg,
                   watchPC, mainPC, inputSum, inputCount, amounts, verdict,
                   closes, fault, published, wRecv, wSent>>

\* A collector that leaves its loop as soon as chOut is empty, closed or not.
CollectEnd_WhenEmpty ==
    /\ Alive
    /\ mainPC = "range"
    /\ chOut = <<>>
    /\ mainPC' = "verify"
    /\ UNCHANGED <<mPC, mIdx, mNum, wSlept, writers,
                   NumOut, cancelled, genPC, genI, wPC, wVal, cPC, cNum, wg,
                   watchPC, chOut, inputSum, inputCount, count, sum, amounts,
                   verdict, closes, fault, published, wRecv, wSent,
                   collected>>

\* A collector that receives with "v := <-chOut" and so takes the zero value
\* of the closed channel as one more Item before it stops.
CollectEnd_ZeroValue ==
    /\ Alive
    /\ mainPC = "range"
    /\ chOut = <<>>
    /\ ChOutClosed
    /\ count' = count + 1
    /\ collected' = Append(collected, 0)
    /\ mainPC' = "verify"
    /\ UNCHANGED <<mPC, mIdx, mNum, wSlept, writers,
                   NumOut, cancelled, genPC, genI, wPC, wVal, cPC, cNum, wg,
                   watchPC, chOut, inputSum, inputCount, sum, amounts,
                   verdict, closes, fault, published, wRecv, wSent>>

\* main: the range over chOut ends when it is closed and empty.
CollectEnd ==
    /\ Alive
    /\ mainPC = "range"
    /\ chOut = <<>>
    /\ ChOutClosed
    /\ mainPC' = "verify"
    /\ UNCHANGED <<mPC, mIdx, mNum, wSlept, writers,
                   NumOut, cancelled, genPC, genI, wPC, wVal, cPC, cNum, wg,
                   watchPC, chOut, inputSum, inputCount, count, sum, amounts,
                   verdict, closes, fault, published, wRecv, wSent,
                   collected>>

\* main, the checks after the prints: the sums, then the counts, then
\* inputCount minus every amounts[i]; the first that fails is fatal.
Verify ==
    /\ Alive
    /\ mainPC = "verify"
    /\ verdict' =
          IF inputSum # sum THEN "sums differ"
          ELSE IF inputCount # count THEN "counts differ"
          ELSE IF inputCount - SumAmounts(amounts, NumOut) # 0 THEN "split wrong"
          ELSE "ok"
    /\ inputCount' =
          IF inputSum # sum \/ inputCount # count THEN inputCount
          ELSE inputCount - SumAmounts(amounts, NumOut)
    /\ mainPC' = "exit"
    /\ UNCHANGED <<mPC, mIdx, mNum, wSlept, writers,
                   NumOut, cancelled, genPC, genI, wPC, wVal, cPC, cNum, wg,
                   watchPC, chOut, inputSum, count, sum, amounts, closes,
                   fault, published, wRecv, wSent, collected>>

Next ==
    \/ Timeout
    \/ GenSend
    \/ GenObserve
    \/ GenClose
    \/ \E w \in Workers : WorkerSend(w)
    \/ \E w \in Workers : WorkerSleep(w)
    \/ \E w \in Workers : WorkerClose(w)
    \/ \E w \in Workers : CoordSend(w)
    \/ \E w \in Workers : CoordCount(w)
    \/ \E w \in Workers : CoordDone(w)
    \/ WatcherWait
    \/ WatcherClose
    \/ CollectRecv
    \/ CollectEnd
    \/ Verify

Spec == Init /\ [][Next]_vars

\* One step of Worker w, of coordinator w, of the watcher, of main.
WorkerStep(w) == WorkerSend(w) \/ WorkerSleep(w) \/ WorkerClose(w)
CoordStep(w) == CoordSend(w) \/ CoordCount(w) \/ CoordDone(w)
WatcherStep == WatcherWait \/ WatcherClose
MainStep == CollectRecv \/ CollectEnd \/ Verify

\* A step of any goroutine other than Generator's choice in its select.
Progress ==
    \/ GenObserve
    \/ \E w \in Workers : WorkerStep(w) \/ CoordStep(w)
    \/ WatcherStep
    \/ MainStep

\* The scheduling the Go runtime gives: the timer fires; while some
\* goroutine can run, one eventually does; and a select with several ready
\* cases picks among them at random, so Generator's Done case, ready again
\* and again once the timer has fired, is eventually taken. (Each of these
\* steps is disabled only by another of them, so fairness to every single
\* goroutine implies the fairness to Progress stated here.)
FairSpec ==
    /\ Spec
    /\ WF_vars(Timeout)
    /\ SF_vars(GenClose)
    /\ WF_vars(Progress)

(***************************************************************************)
(* The sequential-merge variant, src/precode1.go: the same Generator,      *)
(* watcher and main; a Worker that counts its own Items; an unbuffered     *)
(* chOut; and one goroutine that drains outs[1], then outs[2], ... into    *)
(* chOut, calling wg.Done() after each.                                    *)
(***************************************************************************)

InitSeq ==
    /\ NumOut \in 1..MaxNumOut
    /\ cancelled = FALSE
    /\ genPC = "select"
    /\ genI = 1
    /\ wPC = [w \in Workers |-> "recv"]
    /\ wVal = [w \in Workers |-> 0]
    /\ cPC = [w \in Workers |-> "off"]
    /\ cNum = [w \in Workers |-> 0]
    /\ wg = NumOut
    /\ watchPC = "wait"
    /\ mainPC = "range"
    /\ chOut = <<>>
    /\ inputSum = 0
    /\ inputCount = 0
    /\ count = 0
    /\ sum = 0
    /\ amounts = [w \in Workers |-> 0]
    /\ verdict = "none"
    /\ closes = [chIn |-> <<>>, chOut |-> <<>>, outs |-> [w \in Workers |-> <<>>]]
    /\ fault = "none"
    /\ published = <<>>
    /\ wRecv = [w \in Workers |-> <<>>]
    /\ wSent = [w \in Workers |-> <<>>]
    /\ collected = <<>>
    /\ wSlept = [w \in Workers |-> 0]
    /\ writers = [w \in Workers |-> {}]
    /\ mPC = "recv"
    /\ mIdx = 1
    /\ mNum = 0

\* Worker w, "out <- i": a rendezvous with the merging goroutine, which
\* receives from outs[w] only while w is the output it is draining.
SeqWorkerSend(w) ==
    /\ Alive
    /\ wPC[w] = "send"
    /\ IF OutClosed(w)
       THEN /\ fault' = "send on closed outs"
            /\ UNCHANGED <<wPC, mPC, mNum, wSent>>
       ELSE /\ mPC = "recv"
            /\ mIdx = w
            /\ mPC' = "send"
            /\ mNum' = wVal[w]
            /\ wSent' = [wSent EXCEPT ![w] = Append(@, wVal[w])]
            /\ wPC' = [wPC EXCEPT ![w] = "sleep"]
            /\ fault' = fault
    /\ UNCHANGED <<NumOut, cancelled, genPC, genI, wVal, cPC, cNum, wg,
                   watchPC, mainPC, chOut, inputSum, inputCount, count, sum,
                   amounts, verdict, closes, published, wRecv, collected,
                   wSlept, writers, mIdx>>

\* Worker w, "time.Sleep(time.Millisecond)".
SeqWorkerSleep(w) ==
    /\ Alive
    /\ wPC[w] = "sleep"
    /\ wPC' = [wPC EXCEPT ![w] = "count"]
    /\ wSlept' = [wSlept EXCEPT ![w] = @ + 1]
    /\ UNCHANGED <<NumOut, cancelled, genPC, genI, wVal, cPC, cNum, wg,
                   watchPC, mainPC, chOut, inputSum, inputCount, count, sum,
                   amounts, verdict, closes, fault, published, wRecv, wSent,
                   collected, writers, mPC, mIdx, mNum>>

\* Worker w, "*amounts++", then back to the range.
SeqWorkerCount(w) ==
    /\ Alive
    /\ wPC[w] = "count"
    /\ amounts' = [amounts EXCEPT ![w] = @ + 1]
    /\ writers' = [writers EXCEPT ![w] = @ \cup {WorkerId(w)}]
    /\ wPC' = [wPC EXCEPT ![w] = "recv"]
    /\ UNCHANGED <<NumOut, cancelled, genPC, genI, wVal, cPC, cNum, wg,
                   watchPC, mainPC, chOut, inputSum, inputCount, count, sum,
                   verdict, closes, fault, published, wRecv, wSent, collected,
                   wSlept, mPC, mIdx, mNum>>

\* The merging goroutine, "chOut <- i": chOut is unbuffered, so the send is
\* a rendezvous with one iteration of main's
\* "for i := range chOut { count++; sum += i }".
SeqMergeSend ==
    /\ Alive
    /\ mPC = "send"
    /\ IF ChOutClosed
       THEN /\ fault' = "send on closed chOut"
            /\ UNCHANGED <<mPC, count, sum, collected>>
       ELSE /\ mainPC = "range"
            /\ count' = count + 1
            /\ sum' = sum + mNum
            /\ collected' = Append(collected, mNum)
            /\ mPC' = "recv"
            /\ fault' = fault
    /\ UNCHANGED <<NumOut, cancelled, genPC, genI, wPC, wVal, cPC, cNum, wg,
                   watchPC, mainPC, chOut, inputSum, inputCount, amounts,
                   verdict, closes, published, wRecv, wSent, wSlept, writers,
                   mIdx, mNum>>

\* A merging goroutine that leaves an output as soon as it has nothing to
\* hand over, closed or not.
SeqMergeDone_SkipsIdle ==
    /\ Alive
    /\ mPC = "recv"
    /\ wg' = wg - 1
    /\ fault' = IF wg = 0 THEN "negative WaitGroup counter" ELSE fault
    /\ IF mIdx = NumOut
       THEN mPC' = "done" /\ mIdx' = mIdx
       ELSE mPC' = "recv" /\ mIdx' = mIdx + 1
    /\ UNCHANGED <<NumOut, cancelled, genPC, genI, wPC, wVal, cPC, cNum,
                   watchPC, mainPC, chOut, inputSum, inputCount, count, sum,
                   amounts, verdict, closes, published, wRecv, wSent,
                   collected, wSlept, writers, mNum>>

\* A merging goroutine that moves on without "wg.Done()".
SeqMergeDone_NoDone ==
    /\ Alive
    /\ mPC = "recv"
    /\ OutClosed(mIdx)
    /\ IF mIdx = NumOut
       THEN mPC' = "done" /\ mIdx' = mIdx
       ELSE mPC' = "recv" /\ mIdx' = mIdx + 1
    /\ UNCHANGED <<NumOut, cancelled, genPC, genI, wPC, wVal, cPC, cNum, wg,
                   watchPC, mainPC, chOut, inputSum, inputCount, count, sum,
                   amounts, verdict, closes, fault, published, wRecv, wSent,
                   collected, wSlept, writers, mNum>>

\* The merging goroutine: the range over outs[mIdx] ends because it is
\* closed; "wg.Done()"; on to the next output, or return after the last.
SeqMergeDone ==
    /\ Alive
    /\ mPC = "recv"
    /\ OutClosed(mIdx)
    /\ wg' = wg - 1
    /\ fault' = IF wg = 0 THEN "negative WaitGroup counter" ELSE fault
    /\ IF mIdx = NumOut
       THEN mPC' = "done" /\ mIdx' = mIdx
       ELSE mPC' = "recv" /\ mIdx' = mIdx + 1
    /\ UNCHANGED <<NumOut, cancelled, genPC, genI, wPC, wVal, cPC, cNum,
                   watchPC, mainPC, chOut, inputSum, inputCount, count, sum,
                   amounts, verdict, closes, published, wRecv, wSent,
                   collected, wSlept, writers, mNum>>

NextSeq ==
    \/ Timeout
    \/ GenSend
    \/ GenObserve
    \/ GenClose
    \/ \E w \in Workers : SeqWorkerSend(w)
    \/ \E w \in Workers : SeqWorkerSleep(w)
    \/ \E w \in Workers : SeqWorkerCount(w)
    \/ \E w \in Workers : WorkerClose(w)
    \/ SeqMergeSend
    \/ SeqMergeDone
    \/ WatcherWait
    \/ WatcherClose
    \/ CollectEnd
    \/ Verify

SpecSeq == InitSeq /\ [][NextSeq]_vars

\* A step of any goroutine of the variant other than Generator's choice in
\* its select.
ProgressSeq ==
    \/ GenObserve
    \/ \E w \in Workers : \/ SeqWorkerSend(w)
                          \/ SeqWorkerSleep(w)
                          \/ SeqWorkerCount(w)
                          \/ WorkerClose(w)
    \/ SeqMergeSend
    \/ SeqMergeDone
    \/ WatcherStep
    \/ CollectEnd
    \/ Verify

\* The same scheduling assumptions as FairSpec.
FairSpecSeq ==
    /\ SpecSeq
    /\ WF_vars(Timeout)
    /\ SF_vars(GenClose)
    /\ WF_vars(ProgressSeq)

TypeOK ==
    /\ NumOut \in 1..MaxNumOut
    /\ cancelled \in BOOLEAN
    /\ genPC \in {"select", "fn", "done"}
    /\ genI \in 1..(ItemCap + 1)
    /\ wPC \in [Workers -> {"recv", "send", "sleep", "count", "done"}]
    /\ wVal \in [Workers -> 0..ItemCap]
    /\ cPC \in [Workers -> {"off", "recv", "send", "count", "done"}]
    /\ cNum \in [Workers -> 0..ItemCap]
    /\ wg \in 0..NumOut
    /\ watchPC \in {"wait", "close", "done"}
    /\ mainPC \in {"range", "verify", "exit"}
    /\ Len(chOut) <= NumOut
    /\ verdict \in {"none", "ok", "sums differ", "counts differ", "split wrong"}
    /\ fault \in {"none", "negative WaitGroup counter"} \cup ChannelFaults
    /\ wSlept \in [Workers -> 0..ItemCap]
    /\ mPC \in {"off", "recv", "send", "done"}
    /\ mIdx \in 0..NumOut
    /\ mNum \in 0..ItemCap


(***************************************************************************)
(* The claims.                                                             *)
(***************************************************************************)

\* 1 + 2 + ... + n, summed term by term.
RECURSIVE SumTo(_)
SumTo(n) == IF n = 0 THEN 0 ELSE n + SumTo(n - 1)

\* How often v occurs in the sequence s.
Occurrences(s, v) == Cardinality({k \in 1..Len(s) : s[k] = v})

\* s is an initial part of t.
IsPrefix(s, t) == Len(s) <= Len(t) /\ \A k \in 1..Len(s) : s[k] = t[k]

\* C1: when the collector's range over chOut has returned, inputCount equals
\* count and inputSum equals sum, for every worker count and interleaving,
\* so neither of the first two checks of the verification fails.
C1_TalliesAgree ==
    /\ mainPC = "verify" => inputCount = count /\ inputSum = sum
    /\ verdict \notin {"sums differ", "counts differ"}

\* A run with two workers that both took an Item, at the point where the
\* range has returned.
C1_Witness ==
    /\ mainPC = "verify"
    /\ NumOut = 2
    /\ count = 2
    /\ wRecv[1] # <<>>
    /\ wRecv[2] # <<>>

\* C2: when main reads the per-worker counters after the result channel is
\* closed and drained, they add up to inputCount; every Item published on
\* chIn was received by exactly one worker, once, and counted once.
C2_SplitAddsUp ==
    /\ \A k \in 1..Len(published) :
          /\ Cardinality({w \in Workers : Occurrences(wRecv[w], published[k]) > 0}) = 1
          /\ \A w \in Workers : Occurrences(wRecv[w], published[k]) <= 1
    /\ mainPC = "verify" =>
          /\ SumAmounts(amounts, NumOut) = inputCount
          /\ \A w \in Workers : amounts[w] = Len(wRecv[w])
    /\ verdict # "split wrong"

\* The counters are read with the Items split over two workers.
C2_Witness ==
    /\ mainPC = "verify"
    /\ NumOut = 2
    /\ amounts[1] = 1
    /\ amounts[2] = 1

\* C3: the collector never receives a value outside 1..(number published)
\* nor the same value twice, and when its range has returned it has received
\* each of 1..inputCount exactly once and nothing else.
C3_CollectedExactly ==
    /\ \A k \in 1..Len(collected) :
          /\ collected[k] \in 1..Len(published)
          /\ Occurrences(collected, collected[k]) = 1
    /\ mainPC = "verify" =>
          /\ Len(collected) = inputCount
          /\ \A v \in 1..inputCount : Occurrences(collected, v) = 1

\* The range has returned after the Items arrived out of generation order.
C3_Witness ==
    /\ mainPC = "verify"
    /\ collected = <<2, 1>>

\* C4: chOut is closed at most once, by the watcher only, and only when
\* every coordinator has finished; once main's range has returned it has
\* been closed exactly once; no coordinator sends on it after the close.
C4_ResultClosedOnce ==
    /\ Len(closes.chOut) <= 1
    /\ \A k \in 1..Len(closes.chOut) : closes.chOut[k] = WatcherId
    /\ ChOutClosed => \A w \in Workers : cPC[w] = "done"
    /\ mainPC # "range" => Len(closes.chOut) = 1
    /\ fault \notin {"send on closed chOut", "close of closed chOut"}

\* The watcher has closed chOut after two coordinators forwarded Items.
C4_Witness ==
    /\ ChOutClosed
    /\ NumOut = 2
    /\ amounts[1] > 0
    /\ amounts[2] > 0

\* C5: chIn is closed only by Generator, at most once, and Generator is done
\* with it then; outs[w] is closed only by Worker w, at most once, and
\* Worker w is done with it then; no close of a closed channel and no send
\* on a closed channel ever happens.
C5_SingleCloser ==
    /\ Len(closes.chIn) <= 1
    /\ \A k \in 1..Len(closes.chIn) : closes.chIn[k] = GeneratorId
    /\ ChInClosed => genPC = "done"
    /\ \A w \in Workers :
          /\ Len(closes.outs[w]) <= 1
          /\ \A k \in 1..Len(closes.outs[w]) : closes.outs[w][k] = WorkerId(w)
          /\ OutClosed(w) => wPC[w] = "done"
    /\ fault \notin ChannelFaults

\* Every channel of a two-worker run is closed, both workers having sent.
C5_Witness ==
    /\ NumOut = 2
    /\ ChInClosed
    /\ OutClosed(1)
    /\ OutClosed(2)
    /\ ChOutClosed
    /\ wSent[1] # <<>>
    /\ wSent[2] # <<>>


\* C6: with the timer firing and fair scheduling, every run terminates for
\* every worker count: all goroutines finish, chOut is closed, the range of
\* main returns and the verification runs; and no state before that is a
\* deadlock, some step of the program being always possible.
C6_Terminates ==
    /\ [](Alive => ENABLED Next)
    /\ <>(/\ mainPC = "exit"
          /\ verdict # "none"
          /\ genPC = "done"
          /\ watchPC = "done"
          /\ ChOutClosed
          /\ \A w \in Workers : wPC[w] = "done" /\ cPC[w] = "done")

\* A run with a single worker, no fan-out, has terminated with every Item
\* the bound allows.
C6_Witness ==
    /\ mainPC = "exit"
    /\ NumOut = 1
    /\ Len(collected) = MaxItems

\* C7, as stated: once ctx.Done() is ready, no further Item is published on
\* chIn, even when a worker is ready to receive at that moment.
C7_NoPublishAfterSignal == [][cancelled => published' = published]_vars

\* C7, amended: once Generator has taken the cancellation branch and closed
\* chIn, it publishes no further Item and attempts no further send or close
\* on chIn, whatever worker is ready to receive. (Between the signal and
\* that branch, the select may still publish.)
C7_NoPublishAfterClose ==
    [][ChInClosed => /\ published' = published
                     /\ closes'.chIn = closes.chIn
                     /\ fault' \notin {"send on closed chIn", "close of closed chIn"}]_vars

\* chIn is closed while Generator had a further Item to offer and a worker
\* is waiting to receive.
C7_Witness ==
    /\ ChInClosed
    /\ genI <= MaxItems
    /\ \E w \in Workers : wPC[w] = "recv"

C9_ShutdownOrder ==
    /\ \A w \in Workers :
          /\ OutClosed(w) => ChInClosed
          /\ cPC[w] = "done" => wPC[w] = "done"
    /\ ChOutClosed => \A w \in Workers : cPC[w] = "done"
    /\ mainPC # "range" =>
          /\ ChOutClosed
          /\ chOut = <<>>
          /\ genPC = "done"
          /\ watchPC = "done"
          /\ \A w \in Workers : wPC[w] = "done" /\ cPC[w] = "done"

\* main is about to read the tallies of a two-worker run that moved Items.
C9_Witness ==
    /\ mainPC = "verify"
    /\ NumOut = 2
    /\ count = 2
    /\ amounts[2] > 0

\* C10: for each worker, what it has sent on outs[w] is an initial part of
\* what it has received from chIn (same values, same order, at most one
\* behind), and the two are equal once it has closed outs[w].
C10_WorkerForwards ==
    \A w \in Workers :
       /\ IsPrefix(wSent[w], wRecv[w])
       /\ Len(wRecv[w]) - Len(wSent[w]) \in {0, 1}
       /\ Len(wRecv[w]) - Len(wSent[w]) = 1 <=> wPC[w] = "send"
       /\ OutClosed(w) => wSent[w] = wRecv[w]

\* A worker has closed its output after forwarding two Items.
C10_Witness ==
    \E w \in Workers : OutClosed(w) /\ wSent[w] = <<1, 2>>


\* The place of v in the sequence s.
PosIn(s, v) == CHOOSE k \in 1..Len(s) : s[k] = v

\* C11: the Items one worker consumed reach the collector in the order in
\* which that worker consumed them, hence in increasing value, however the
\* Items of different workers interleave in the buffered chOut.
C11_PerWorkerOrder ==
    \A w \in Workers : \A a, b \in 1..Len(collected) :
       (/\ a < b
        /\ Occurrences(wRecv[w], collected[a]) > 0
        /\ Occurrences(wRecv[w], collected[b]) > 0)
       => /\ PosIn(wRecv[w], collected[a]) < PosIn(wRecv[w], collected[b])
          /\ collected[a] < collected[b]

\* With a buffer of two, one worker consumed both Items and the collector
\* has received both.
C11_Witness ==
    /\ NumOut = 2
    /\ wRecv[1] = <<1, 2>>
    /\ collected = <<1, 2>>


SlotOwner(w) == IF mPC = "off" THEN CoordId(w) ELSE WorkerId(w)

EarlierOpen(w) == \E j \in 1..(w - 1) : ~OutClosed(j)

\* C14: in the sequential-merge variant a worker that has taken an Item
\* while an earlier output is still open stays blocked on its send: it has
\* that one Item, has sent nothing, and no step moves it on until every
\* earlier output is closed.
C14_LaterWorkersStall ==
    /\ [](\A w \in Workers :
            (EarlierOpen(w) /\ wRecv[w] # <<>>) =>
               /\ wPC[w] = "send"
               /\ wSent[w] = <<>>
               /\ mIdx < w)
    /\ [][\A w \in Workers :
            (EarlierOpen(w) /\ wPC[w] = "send") =>
               (wPC'[w] = "send" /\ wSent'[w] = wSent[w])]_vars

\* The second worker holds an Item it cannot send while the first worker,
\* its output open, has already forwarded one.
C14_Witness ==
    /\ NumOut = 2
    /\ mPC # "off"
    /\ wPC[2] = "send"
    /\ ~OutClosed(1)
    /\ wSent[1] # <<>>

\* C15: the sequential-merge variant never deadlocks and, with the timer
\* firing and fair scheduling, always terminates; chOut is closed only after
\* wg.Done() has been called NumOut times, never more; and the run ends with
\* all three checks passed.
C15_SeqTerminates ==
    /\ [](Alive => ENABLED NextSeq)
    /\ [](fault = "none")
    /\ [](ChOutClosed => wg = 0 /\ mPC = "done")
    /\ [](mainPC = "verify" =>
            /\ inputSum = sum
            /\ inputCount = count
            /\ SumAmounts(amounts, NumOut) = inputCount)
    /\ <>(/\ mainPC = "exit"
          /\ verdict = "ok"
          /\ genPC = "done"
          /\ mPC = "done"
          /\ watchPC = "done"
          /\ wg = 0
          /\ \A w \in Workers : wPC[w] = "done")

\* The variant has terminated after its second worker sat through the stall
\* with an Item.
C15_Witness ==
    /\ mPC = "done"
    /\ mainPC = "exit"
    /\ verdict = "ok"
    /\ NumOut = 2
    /\ wRecv[2] # <<>>
    /\ wRecv[1] # <<>>

\* C16: in the sequential-merge variant every worker but the first takes and
\* counts at most one Item, so when main reads the counters amounts[1] is at
\* least inputCount - (NumOut - 1).
C16_LaterWorkersOneItem ==
    /\ \A w \in Workers : w >= 2 => amounts[w] <= 1 /\ Len(wRecv[w]) <= 1
    /\ mainPC = "verify" => amounts[1] >= inputCount - (NumOut - 1)

\* The counters are read with one Item counted by the second worker.
C16_Witness ==
    /\ mPC # "off"
    /\ mainPC = "verify"
    /\ NumOut = 2
    /\ amounts[2] = 1
    /\ amounts[1] >= 1


\* The Items published on chIn that main has not yet received.
InFlight == Len(published) - Len(collected)

\* C17: back-pressure bounds the generator's lead: the Items in flight are
\* exactly those held by workers awaiting their send on outs[w], those held
\* by coordinators awaiting their send on chOut, and those in the buffer of
\* chOut, which never holds more than NumOut; so they are at most 3*NumOut.
C17_BackPressure ==
    /\ InFlight = Cardinality({w \in Workers : wPC[w] = "send"})
                  + Cardinality({w \in Workers : cPC[w] = "send"})
                  + Len(chOut)
    /\ Len(chOut) <= NumOut
    /\ InFlight <= 3 * NumOut

\* The pipeline of one worker is full: three Items in flight, and the
\* generator, with a fourth to offer, finds no worker receiving.
C17_Witness ==
    /\ NumOut = 1
    /\ InFlight = 3
    /\ genPC = "select"
    /\ genI = 4
    /\ genI <= ItemCap
    /\ ~cancelled

====
